---- MODULE Spec2Model ----
(***************************************************************************)
(* Model of the go-eval scorers (github.com/datar-psa/go-eval).            *)
(*                                                                         *)
(* A scorer is constructed with its options and its collaborator, and      *)
(* Score is then called on it.  Score is synchronous: the only point at    *)
(* which it waits is the single call to the collaborator, so one call of   *)
(* Score is modelled by the step that issues the collaborator call and     *)
(* the step in which the collaborator answers and Score runs to its        *)
(* return.                                                                 *)
(*                                                                         *)
(* float64 values are modelled as rationals in lowest terms                *)
(* ([n |-> numerator, d |-> denominator], d > 0).  Sums, products and      *)
(* quotients are exact; math.Sqrt is exact on the squares of rationals     *)
(* and rounded otherwise, an irrational root having no float64.            *)
(*                                                                         *)
(* In the specification of concurrent calls pc, reply and result hold one  *)
(* value per call.                                                         *)
(***************************************************************************)
EXTENDS Integers, Sequences, FiniteSets, TLC

VARIABLES
    scorer,   \* which scorer was constructed: the Name its Score gives its result
    opts,     \* the scorer's opts, fixed by its constructor
    llm,      \* the scorer's collaborator (llm, opts.Embedder, provider):
              \* "nil" or, when configured, "generator"
    in,       \* the ScoreInputs of the Score call (Output, Expected)
    pc,       \* position of the Score call: "idle", "awaiting" (the collaborator
              \* call), "awaitingExpected" (the second Embed call), "done"
              \* (Score returned), "panicked" (Score aborted with a run-time panic)
    calls,    \* collaborator calls issued by the current Score call
    reply,    \* what the collaborator returned to the current Score call
    result    \* the goeval.Score value returned by the last Score call

vars == <<scorer, opts, llm, in, pc, calls, reply, result>>

---------------------------------------------------------------------------
(* float64 arithmetic, as exact rationals *)

RECURSIVE GCD(_, _)
GCD(a, b) == IF b = 0 THEN a ELSE GCD(b, a % b)

Abs(x) == IF x < 0 THEN -x ELSE x

\* the rational n/d in lowest terms, d > 0
Rat(n, d) ==
    LET s == IF d < 0 THEN -1 ELSE 1
        g == GCD(Abs(n), Abs(d))
    IN  [n |-> (s * n) \div g, d |-> (s * d) \div g]

Zero == Rat(0, 1)
One == Rat(1, 1)

RAdd(x, y) == Rat(x.n * y.d + y.n * x.d, x.d * y.d)
RMul(x, y) == Rat(x.n * y.n, x.d * y.d)
RDiv(x, y) == Rat(x.n * y.d, x.d * y.n)
RLt(x, y) == x.n * y.d < y.n * x.d
RLe(x, y) == x.n * y.d <= y.n * x.d
RGt(x, y) == RLt(y, x)
RGe(x, y) == RLe(y, x)

---------------------------------------------------------------------------
(* Values of the judge's structured response, a map[string]interface{} *)

StringValue(s) == [type |-> "string", str |-> s]
NumberValue(x) == [type |-> "number", num |-> x]

\* v, ok := m[key].(string)
IsString(m, key) == key \in DOMAIN m /\ m[key].type = "string"

\* v, ok := m[key].(float64)
IsFloat64(m, key) == key \in DOMAIN m /\ m[key].type = "number"

---------------------------------------------------------------------------
(* errors *)

NilError == [msg |-> "<nil>", wraps |-> "<nil>"]

\* fmt.Errorf(msg) without %w
Errorf(msg) == [msg |-> msg, wraps |-> "<nil>"]

ErrLLMGenerationFailed == [msg |-> "LLM generation failed", wraps |-> "<nil>"]

ErrNoExpectedValue ==
    [msg |-> "expected value is required for this scorer", wraps |-> "<nil>"]

\* fmt.Errorf("%w: %v", goeval.ErrLLMGenerationFailed, err)
WrapLLMGenerationFailed(err) ==
    [msg |-> "LLM generation failed: " \o err.msg, wraps |-> ErrLLMGenerationFailed.msg]

\* errors.Is(err, target)
ErrorsIs(err, target) == err # NilError /\ (err = target \/ err.wraps = target.msg)

---------------------------------------------------------------------------
(* llmjudge.Tonality *)

\* the four dimensions, in the order of the arrays of tonalityScorer.Score
Dimensions == <<"professionalism", "kindness", "clarity", "helpfulness">>

DimIndex == 1..4

Letters == {"A", "B", "C", "D", "E"}

\* choiceToScore with the score of B entered for C as well
choiceToScoreRepeated ==
    [c \in Letters |->
        CASE c = "A" -> Rat(0, 1)
          [] c = "B" -> Rat(1, 4)
          [] c = "C" -> Rat(1, 4)
          [] c = "D" -> Rat(3, 4)
          [] c = "E" -> Rat(1, 1)]

\* the Go map literal choiceToScore
choiceToScore ==
    [c \in Letters |->
        CASE c = "A" -> Rat(0, 1)
          [] c = "B" -> Rat(1, 4)
          [] c = "C" -> Rat(1, 2)
          [] c = "D" -> Rat(3, 4)
          [] c = "E" -> Rat(1, 1)]

\* choiceToScore[choice]: a Go map read, the zero value for a missing key
baseScore(choice) ==
    IF choice \in DOMAIN choiceToScore THEN choiceToScore[choice] ELSE Zero

\* clamp01 without the upper bound
clamp01LowerOnly(v) == IF RLt(v, Zero) THEN Zero ELSE v

clamp01(v) ==
    IF RLt(v, Zero) THEN Zero
    ELSE IF RGt(v, One) THEN One
    ELSE v

DefaultConfidence == Rat(7, 10)

\* confidences[i]: 0.7 unless <dimension>_confidence is a float64
confidence(structuredResponse, i) ==
    LET key == Dimensions[i] \o "_confidence"
    IN  IF IsFloat64(structuredResponse, key)
        THEN clamp01(structuredResponse[key].num)
        ELSE DefaultConfidence

\* weights := [4]float64{s.opts.ProfessionalismWeight, ...}
rawWeights(o) ==
    <<o.ProfessionalismWeight, o.KindnessWeight, o.ClarityWeight, o.HelpfulnessWeight>>

\* nonZeroCount with the test w != 0 in place of w > 0
nonZeroCountNotZero(weights) == Cardinality({i \in DimIndex : weights[i] # Zero})

\* nonZeroCount: the number of weights > 0
nonZeroCount(weights) == Cardinality({i \in DimIndex : RGt(weights[i], Zero)})

\* sum of the weights > 0, accumulated over indices 1..i
RECURSIVE positiveSum(_, _)
positiveSum(weights, i) ==
    IF i = 0 THEN Zero
    ELSE IF RGt(weights[i], Zero)
         THEN RAdd(positiveSum(weights, i - 1), weights[i])
         ELSE positiveSum(weights, i - 1)

\* the weights array after the normalisation block of Score
normalizeWeights(weights) ==
    IF nonZeroCount(weights) = 0
    THEN [i \in DimIndex |-> Rat(1, 4)]
    ELSE LET sum == positiveSum(weights, 4)
         IN  IF RGt(sum, Zero)
             THEN [i \in DimIndex |->
                      IF RGt(weights[i], Zero) THEN RDiv(weights[i], sum)
                      ELSE weights[i]]
             ELSE weights

\* weightedSum with the loop starting one dimension late
RECURSIVE weightedSumFromSecond(_, _, _)
weightedSumFromSecond(weights, baseScores, i) ==
    IF i <= 1 THEN Zero
    ELSE RAdd(weightedSumFromSecond(weights, baseScores, i - 1),
              RMul(weights[i], baseScores[i]))

\* finalScore accumulated over i = 0..3: weights[i] * baseScores[i]
RECURSIVE weightedSum(_, _, _)
weightedSum(weights, baseScores, i) ==
    IF i = 0 THEN Zero
    ELSE RAdd(weightedSum(weights, baseScores, i - 1),
              RMul(weights[i], baseScores[i]))

\* belowThreshold with the comparison <= in place of <
belowThresholdInclusive(weights, baseScores, threshold) ==
    /\ RGt(threshold, Zero)
    /\ \E i \in DimIndex :
          RGt(weights[i], Zero) /\ RLe(baseScores[i], threshold)

\* belowThreshold without the test of the weight
belowThresholdAnyDimension(weights, baseScores, threshold) ==
    /\ RGt(threshold, Zero)
    /\ \E i \in DimIndex : RLt(baseScores[i], threshold)

\* the threshold loop finds a used dimension below the threshold
belowThreshold(weights, baseScores, threshold) ==
    /\ RGt(threshold, Zero)
    /\ \E i \in DimIndex :
          RGt(weights[i], Zero) /\ RLt(baseScores[i], threshold)

\* finalScore after the threshold block
finalScore(weights, baseScores, threshold) ==
    IF belowThreshold(weights, baseScores, threshold)
    THEN Zero
    ELSE weightedSum(weights, baseScores, 4)

\* the map of one key
Entry(k, v) == k :> v

\* the metadata entries written for dimension i by a successful Score
dimensionMetadata(i, choices, baseScores, confidences, weights) ==
    Entry(Dimensions[i] \o ".choice", choices[i])
    @@ Entry(Dimensions[i] \o ".score", baseScores[i])
    @@ Entry(Dimensions[i] \o ".confidence", confidences[i])
    @@ Entry("weights." \o Dimensions[i], weights[i])

\* tonalityScorer.returnError
returnError(err, rawResponse) ==
    [Name |-> "Tonality",
     Score |-> Zero,
     Error |-> err,
     Metadata |->
        Entry("raw_response", rawResponse)
        @@ Entry("professionalism.choice", "")
        @@ Entry("professionalism.score", Zero)
        @@ Entry("kindness.choice", "")
        @@ Entry("kindness.score", Zero)
        @@ Entry("clarity.choice", "")
        @@ Entry("clarity.score", Zero)
        @@ Entry("helpfulness.choice", "")
        @@ Entry("helpfulness.score", Zero)
        @@ Entry("weights.professionalism", Zero)
        @@ Entry("weights.kindness", Zero)
        @@ Entry("weights.clarity", Zero)
        @@ Entry("weights.helpfulness", Zero)]

\* a nil interface{}
NilValue == [type |-> "nil"]

\* a nil map[string]interface{}: it holds no key, and reading it yields zero values
NilMap == [type |-> "nil map"]

\* firstNotString with the fields examined in the opposite order
RECURSIVE lastNotString(_, _)
lastNotString(structuredResponse, i) ==
    IF i > 4 THEN 0
    ELSE IF ~IsString(structuredResponse, Dimensions[5 - i]) THEN 5 - i
    ELSE lastNotString(structuredResponse, i + 1)

\* firstNotString that also rejects a confidence field that is not a number
RECURSIVE firstNotStringStrict(_, _)
firstNotStringStrict(structuredResponse, i) ==
    IF i > 4 THEN 0
    ELSE IF ~IsString(structuredResponse, Dimensions[i]) THEN i
    ELSE IF /\ (Dimensions[i] \o "_confidence") \in DOMAIN structuredResponse
            /\ ~IsFloat64(structuredResponse, Dimensions[i] \o "_confidence") THEN i
    ELSE firstNotStringStrict(structuredResponse, i + 1)

\* the first dimension, in extraction order, whose field is not a string; 0 if none
RECURSIVE firstNotString(_, _)
firstNotString(structuredResponse, i) ==
    IF i > 4 THEN 0
    ELSE IF ~IsString(structuredResponse, Dimensions[i]) THEN i
    ELSE firstNotString(structuredResponse, i + 1)

extractError(i) ==
    Errorf("failed to extract " \o Dimensions[i] \o " choice from structured response")

\* tonalityScorer.Score from the return of StructuredGenerate (err == nil) on
scoreResponse(o, structuredResponse) ==
    LET bad == firstNotString(structuredResponse, 1)
    IN  IF bad # 0
        THEN returnError(extractError(bad), structuredResponse)
        ELSE
          LET choices == [i \in DimIndex |-> structuredResponse[Dimensions[i]].str]
              baseScores == [i \in DimIndex |-> baseScore(choices[i])]
              confidences == [i \in DimIndex |-> confidence(structuredResponse, i)]
              weights == normalizeWeights(rawWeights(o))
          IN  [Name |-> "Tonality",
               Score |-> finalScore(weights, baseScores, o.Threshold),
               Error |-> NilError,
               Metadata |->
                  dimensionMetadata(1, choices, baseScores, confidences, weights)
                  @@ dimensionMetadata(2, choices, baseScores, confidences, weights)
                  @@ dimensionMetadata(3, choices, baseScores, confidences, weights)
                  @@ dimensionMetadata(4, choices, baseScores, confidences, weights)
                  @@ Entry("threshold", o.Threshold)
                  @@ Entry("raw_response", structuredResponse)]

\* result := goeval.Score{Name: "Tonality", Metadata: make(map[string]any)}
newResult == [Name |-> "Tonality", Score |-> Zero, Error |-> NilError, Metadata |-> <<>>]

---------------------------------------------------------------------------
(* The inputs explored *)

\* raw weights are multiples of 0.1 from -0.1 to MaxWeightTenths / 10
MaxWeightTenths == 3

RawWeightSet == {Rat(k, 10) : k \in {-1, 0} \cup 2..MaxWeightTenths}

\* thresholds: negative, zero (disabled), and 0.5, the score of grade C
ThresholdSet == {Rat(-1, 4), Zero, Rat(1, 2)}

TonalityOptionsSet ==
    [ProfessionalismWeight : RawWeightSet,
     KindnessWeight : RawWeightSet,
     ClarityWeight : RawWeightSet,
     HelpfulnessWeight : RawWeightSet,
     Threshold : ThresholdSet]

\* what the judge may put in a grade field
Absent == [type |-> "absent"]

\* the response map holding the fields of f that are present
responseOf(f) ==
    [k \in {Dimensions[i] : i \in {j \in DimIndex : f[j] # Absent}} |->
        f[CHOOSE i \in DimIndex : Dimensions[i] = k]]

\* graded responses: every grade field holds a letter of the alphabet
GradedResponseSet ==
    {responseOf(f) : f \in [DimIndex -> {StringValue(c) : c \in Letters}]}

\* defective responses: some grade field holds a string outside the alphabet, a
\* value that is not a string, or is missing
DefectiveFieldSet ==
    {StringValue("A"), StringValue("F"), NumberValue(Rat(42, 1)), Absent}

DefectiveResponseSet ==
    {responseOf(f) : f \in {g \in [DimIndex -> DefectiveFieldSet] :
                              \E i \in DimIndex : g[i] # StringValue("A")}}

\* the nil map is what the JSON document null decodes to
ResponseSet == GradedResponseSet \cup DefectiveResponseSet \cup {NilMap}

\* the errors StructuredGenerate may return
LLMErrorSet == {Errorf("API error")}

---------------------------------------------------------------------------
(* The Tonality scorer: construction and one call of Score *)

\* no call of StructuredGenerate has returned
NoReply == [response |-> NilValue, err |-> NilError]

\* a string is the sequence of its characters
EmptyString == <<>>

\* the ScoreInputs of the Tonality tests: an Output and no Expected
TonalityInputs == [Output |-> <<"a">>, Expected |-> EmptyString]

\* Tonality(llm, opts)
TonalityInit ==
    /\ scorer = "Tonality"
    /\ opts \in TonalityOptionsSet
    /\ llm \in {"nil", "generator"}
    /\ in = TonalityInputs
    /\ pc = "idle"
    /\ calls = 0
    /\ reply = NoReply
    /\ result = newResult

\* Score with s.llm == nil: returns at once
ScoreNilLLM ==
    /\ scorer = "Tonality"
    /\ pc = "idle"
    /\ llm = "nil"
    /\ result' = [newResult EXCEPT !.Error = Errorf("LLM generator is required"),
                                   !.Score = Zero]
    /\ pc' = "done"
    /\ UNCHANGED <<scorer, opts, llm, in, calls, reply>>

\* Score builds the prompt and the schema and calls s.llm.StructuredGenerate
ScoreCallsStructuredGenerate ==
    /\ scorer = "Tonality"
    /\ pc = "idle"
    /\ llm # "nil"
    /\ calls' = calls + 1
    /\ pc' = "awaiting"
    /\ UNCHANGED <<scorer, opts, llm, in, reply, result>>

\* StructuredGenerate returns an error: Score returns through returnError
StructuredGenerateFails ==
    /\ scorer = "Tonality"
    /\ pc = "awaiting"
    /\ \E err \in LLMErrorSet :
          /\ reply' = [response |-> NilValue, err |-> err]
          /\ result' = returnError(WrapLLMGenerationFailed(err), NilValue)
    /\ pc' = "done"
    /\ UNCHANGED <<scorer, opts, llm, in, calls>>

\* StructuredGenerate returns a response of the set responses: Score runs to
\* its return
StructuredGenerateReturnsFrom(responses) ==
    /\ scorer = "Tonality"
    /\ pc = "awaiting"
    /\ \E structuredResponse \in responses :
          /\ reply' = [response |-> structuredResponse, err |-> NilError]
          /\ result' = scoreResponse(opts, structuredResponse)
    /\ pc' = "done"
    /\ UNCHANGED <<scorer, opts, llm, in, calls>>

StructuredGenerateReturns == StructuredGenerateReturnsFrom(ResponseSet)

TonalityNext ==
    \/ ScoreNilLLM
    \/ ScoreCallsStructuredGenerate
    \/ StructuredGenerateFails
    \/ StructuredGenerateReturns

SpecTonality == TonalityInit /\ [][TonalityNext]_vars

---------------------------------------------------------------------------
(* The Tonality scorer with the optional confidence fields in the response *)

\* what the judge may put in a confidence field: nothing, a string, or a number
\* below, inside, at the ends of, or above [0,1]
ConfidenceFieldSet ==
    {Absent, StringValue("high")}
    \cup {NumberValue(x) : x \in {Rat(-1, 2), Zero, Rat(3, 10), One, Rat(3, 2)}}

\* the response with grade C in the four grade fields and the confidence fields
\* of c that are present
confidenceResponseOf(c) ==
    [k \in {Dimensions[i] : i \in DimIndex}
            \cup {Dimensions[i] \o "_confidence" : i \in {j \in DimIndex : c[j] # Absent}} |->
        IF k \in {Dimensions[i] : i \in DimIndex}
        THEN StringValue("C")
        ELSE c[CHOOSE i \in DimIndex : Dimensions[i] \o "_confidence" = k]]

ConfidenceResponseSet ==
    {confidenceResponseOf(c) : c \in [DimIndex -> ConfidenceFieldSet]}

\* the options of the tests: default weights, and weights [0.3,0.2,0.3,0.2]
\* with threshold 0.5
ConfidenceOptionsSet ==
    {[ProfessionalismWeight |-> Zero, KindnessWeight |-> Zero,
      ClarityWeight |-> Zero, HelpfulnessWeight |-> Zero, Threshold |-> Zero],
     [ProfessionalismWeight |-> Rat(3, 10), KindnessWeight |-> Rat(2, 10),
      ClarityWeight |-> Rat(3, 10), HelpfulnessWeight |-> Rat(2, 10),
      Threshold |-> Rat(1, 2)]}

TonalityConfidenceInit ==
    /\ scorer = "Tonality"
    /\ opts \in ConfidenceOptionsSet
    /\ llm \in {"nil", "generator"}
    /\ in = TonalityInputs
    /\ pc = "idle"
    /\ calls = 0
    /\ reply = NoReply
    /\ result = newResult

TonalityConfidenceNext ==
    \/ ScoreNilLLM
    \/ ScoreCallsStructuredGenerate
    \/ StructuredGenerateFails
    \/ StructuredGenerateReturnsFrom(ConfidenceResponseSet)

SpecTonalityConfidence ==
    TonalityConfidenceInit /\ [][TonalityConfidenceNext]_vars

---------------------------------------------------------------------------
(* heuristic.ExactMatch *)

\* strings are at most MaxLen characters long
MaxLen == 3

\* the characters of the strings explored: a space, a letter and its capital
Chars == {" ", "a", "A"}

StringSet == UNION {[1..n -> Chars] : n \in 0..MaxLen}

\* unicode.IsSpace, on the characters that occur
IsSpace(c) == c \in {" ", "\t", "\n", "\r"}

\* strings.TrimSpace with only the leading white space removed
RECURSIVE TrimLeadingSpace(_)
TrimLeadingSpace(str) ==
    IF str # <<>> /\ IsSpace(Head(str)) THEN TrimLeadingSpace(Tail(str))
    ELSE str

\* strings.TrimSpace: leading and trailing white space removed
RECURSIVE TrimSpace(_)
TrimSpace(str) ==
    IF str # <<>> /\ IsSpace(Head(str)) THEN TrimSpace(Tail(str))
    ELSE IF str # <<>> /\ IsSpace(str[Len(str)]) THEN TrimSpace(SubSeq(str, 1, Len(str) - 1))
    ELSE str

\* unicode.ToLower, on the characters that occur
lowerChar(c) == IF c = "A" THEN "a" ELSE c

\* strings.ToLower
ToLower(str) == [i \in 1..Len(str) |-> lowerChar(str[i])]

\* outputToCompare / expectedToCompare: trimmed, then folded, as opts ask
toCompare(o, str) ==
    LET trimmed == IF o.TrimWhitespace THEN TrimSpace(str) ELSE str
    IN  IF o.CaseInsensitive THEN ToLower(trimmed) ELSE trimmed

\* exactMatchScorer.Score with the missing-expected check made on the string
\* that is compared
exactMatchScoreCheckedLate(o, inputs) ==
    IF toCompare(o, inputs.Expected) = EmptyString
    THEN [Name |-> "ExactMatch", Score |-> Zero, Error |-> ErrNoExpectedValue,
          Metadata |-> <<>>]
    ELSE [Name |-> "ExactMatch",
          Score |-> IF toCompare(o, inputs.Output) = toCompare(o, inputs.Expected)
                    THEN One ELSE Zero,
          Error |-> NilError,
          Metadata |->
             Entry("case_insensitive", o.CaseInsensitive)
             @@ Entry("trim_whitespace", o.TrimWhitespace)
             @@ Entry("output_length", Len(inputs.Output))
             @@ Entry("expected_length", Len(inputs.Expected))]

\* exactMatchScorer.Score
exactMatchScore(o, inputs) ==
    IF inputs.Expected = EmptyString
    THEN [Name |-> "ExactMatch", Score |-> Zero, Error |-> ErrNoExpectedValue,
          Metadata |-> <<>>]
    ELSE [Name |-> "ExactMatch",
          Score |-> IF toCompare(o, inputs.Output) = toCompare(o, inputs.Expected)
                    THEN One ELSE Zero,
          Error |-> NilError,
          Metadata |->
             Entry("case_insensitive", o.CaseInsensitive)
             @@ Entry("trim_whitespace", o.TrimWhitespace)
             @@ Entry("output_length", Len(inputs.Output))
             @@ Entry("expected_length", Len(inputs.Expected))]

ExactMatchOptionsSet == [CaseInsensitive : BOOLEAN, TrimWhitespace : BOOLEAN]

\* the result variable of a Score call that has not run yet
emptyResult(name) ==
    [Name |-> name, Score |-> Zero, Error |-> NilError, Metadata |-> <<>>]

\* ExactMatch(opts); the scorer has no collaborator
ExactMatchInit ==
    /\ scorer = "ExactMatch"
    /\ opts \in ExactMatchOptionsSet
    /\ llm = "nil"
    /\ in \in [Output : StringSet, Expected : StringSet]
    /\ pc = "idle"
    /\ calls = 0
    /\ reply = NoReply
    /\ result = emptyResult("ExactMatch")

\* Score runs from its call to its return without waiting for anything
ExactMatchScore ==
    /\ scorer = "ExactMatch"
    /\ pc = "idle"
    /\ result' = exactMatchScore(opts, in)
    /\ pc' = "done"
    /\ UNCHANGED <<scorer, opts, llm, in, calls, reply>>

ExactMatchNext == ExactMatchScore

SpecExactMatch == ExactMatchInit /\ [][ExactMatchNext]_vars

---------------------------------------------------------------------------
(* embedding.EmbeddingSimilarity *)

\* fmt.Errorf(prefix + "%w", err)
Wrapf(prefix, err) == [msg |-> prefix \o err.msg, wraps |-> err.msg]

\* the sum of a[i] * b[i] over the first n indexes
RECURSIVE dotProduct(_, _, _)
dotProduct(a, b, n) ==
    IF n = 0 THEN Zero ELSE RAdd(dotProduct(a, b, n - 1), RMul(a[n], b[n]))

\* the integer part of the square root of n
ISqrt(n) == CHOOSE k \in 0..n : k * k <= n /\ (k + 1) * (k + 1) > n

IsSquare(n) == ISqrt(n) * ISqrt(n) = n

\* the numbers math.Sqrt can return for an irrational root are multiples of
\* 1 / SqrtGrid: a float of few bits stands for float64
SqrtGrid == 4

\* math.Sqrt of x >= 0: the root itself when it is rational, and otherwise,
\* as no float equals it, the representable number nearest to it
Sqrt(x) ==
    IF IsSquare(x.n) /\ IsSquare(x.d)
    THEN Rat(ISqrt(x.n), ISqrt(x.d))
    ELSE LET below == ISqrt((x.n * SqrtGrid * SqrtGrid) \div x.d)
             roundUp == (2 * below + 1) * (2 * below + 1) * x.d
                           < 4 * x.n * SqrtGrid * SqrtGrid
         IN  Rat(IF roundUp THEN below + 1 ELSE below, SqrtGrid)

\* cosineSimilarity without the division by the norms
cosineSimilarityUnnormalised(a, b) ==
    IF Len(a) # Len(b) THEN Zero
    ELSE LET normA == Sqrt(dotProduct(a, a, Len(a)))
             normB == Sqrt(dotProduct(b, b, Len(a)))
         IN  IF normA = Zero \/ normB = Zero THEN Zero
             ELSE dotProduct(a, b, Len(a))

\* cosineSimilarity without the test of the lengths, over the indexes both
\* vectors have
cosineSimilarityUnchecked(a, b) ==
    LET n == IF Len(a) < Len(b) THEN Len(a) ELSE Len(b)
        normA == Sqrt(dotProduct(a, a, n))
        normB == Sqrt(dotProduct(b, b, n))
    IN  IF normA = Zero \/ normB = Zero THEN Zero
        ELSE RDiv(dotProduct(a, b, n), RMul(normA, normB))

\* cosineSimilarity
cosineSimilarity(a, b) ==
    IF Len(a) # Len(b) THEN Zero
    ELSE LET normA == Sqrt(dotProduct(a, a, Len(a)))
             normB == Sqrt(dotProduct(b, b, Len(a)))
         IN  IF normA = Zero \/ normB = Zero THEN Zero
             ELSE RDiv(dotProduct(a, b, Len(a)), RMul(normA, normB))

\* normalizedScore: (similarity + 1) / 2, cut to [0, 1]
normalizedScore(similarity) ==
    LET v == RDiv(RAdd(similarity, One), Rat(2, 1))
    IN  IF RLt(v, Zero) THEN Zero
        ELSE IF RGt(v, One) THEN One
        ELSE v

\* the Score returned once both embeddings are there
similarityResult(outputEmbed, expectedEmbed) ==
    LET similarity == cosineSimilarity(outputEmbed, expectedEmbed)
    IN  [Name |-> "EmbeddingSimilarity",
         Score |-> normalizedScore(similarity),
         Error |-> NilError,
         Metadata |->
            Entry("cosine_similarity", similarity)
            @@ Entry("embedding_dim", Len(outputEmbed))]

\* the Score of a failed call
similarityError(err) ==
    [Name |-> "EmbeddingSimilarity", Score |-> Zero, Error |-> err, Metadata |-> <<>>]

\* the vectors an Embedder returns: unit vectors, a vector of norm 2, two
\* opposite vectors of irrational norm, the zero vector, a vector of another
\* dimension and the empty vector
EmbeddingSet ==
    {<<One, Zero>>, <<Zero, One>>, <<Rat(-1, 1), Zero>>,
     <<Rat(3, 5), Rat(4, 5)>>, <<Rat(-3, 5), Rat(-4, 5)>>,
     <<Rat(2, 1), Zero>>, <<One, One>>, <<Rat(-1, 1), Rat(-1, 1)>>,
     <<Zero, Zero>>, <<One, Zero, Zero>>, <<>>}

EmbedErrorSet == {Errorf("embedding API error")}

\* output and expected texts: empty or not
EmbeddingInputsSet == [Output : {EmptyString, <<"a">>}, Expected : {EmptyString, <<"a">>}]

\* EmbeddingSimilarity(opts); llm is opts.Embedder
EmbeddingInit ==
    /\ scorer = "EmbeddingSimilarity"
    /\ llm \in {"nil", "embedder"}
    /\ opts = [Embedder |-> llm]
    /\ in \in EmbeddingInputsSet
    /\ pc = "idle"
    /\ calls = 0
    /\ reply = [response |-> <<>>, err |-> NilError]
    /\ result = emptyResult("EmbeddingSimilarity")

\* Score with an empty expected returns ErrNoExpectedValue
EmbeddingScoreNoExpected ==
    /\ scorer = "EmbeddingSimilarity"
    /\ pc = "idle"
    /\ in.Expected = EmptyString
    /\ result' = similarityError(ErrNoExpectedValue)
    /\ pc' = "done"
    /\ UNCHANGED <<scorer, opts, llm, in, calls, reply>>

\* Score without an embedder returns an error
EmbeddingScoreNilEmbedder ==
    /\ scorer = "EmbeddingSimilarity"
    /\ pc = "idle"
    /\ in.Expected # EmptyString
    /\ llm = "nil"
    /\ result' = similarityError(Errorf("embedder is required"))
    /\ pc' = "done"
    /\ UNCHANGED <<scorer, opts, llm, in, calls, reply>>

\* Score calls Embed(ctx, output)
EmbeddingScoreCallsEmbed ==
    /\ scorer = "EmbeddingSimilarity"
    /\ pc = "idle"
    /\ in.Expected # EmptyString
    /\ llm # "nil"
    /\ calls' = calls + 1
    /\ pc' = "awaiting"
    /\ UNCHANGED <<scorer, opts, llm, in, reply, result>>

\* Embed(ctx, output) returns an error and Score goes on to embed expected
EmbedOutputFailsAndGoesOn ==
    /\ scorer = "EmbeddingSimilarity"
    /\ pc = "awaiting"
    /\ \E err \in EmbedErrorSet : reply' = [response |-> <<<<>>>>, err |-> err]
    /\ calls' = calls + 1
    /\ pc' = "awaitingExpected"
    /\ UNCHANGED <<scorer, opts, llm, in, result>>

\* Embed(ctx, output) returns an error: Score returns it
EmbedOutputFails ==
    /\ scorer = "EmbeddingSimilarity"
    /\ pc = "awaiting"
    /\ \E err \in EmbedErrorSet :
          /\ reply' = [response |-> <<>>, err |-> err]
          /\ result' = similarityError(Wrapf("failed to embed output: ", err))
    /\ pc' = "done"
    /\ UNCHANGED <<scorer, opts, llm, in, calls>>

\* Embed(ctx, output) returns a vector: Score calls Embed(ctx, expected)
EmbedOutputReturns ==
    /\ scorer = "EmbeddingSimilarity"
    /\ pc = "awaiting"
    /\ \E outputEmbed \in EmbeddingSet :
          reply' = [response |-> <<outputEmbed>>, err |-> NilError]
    /\ calls' = calls + 1
    /\ pc' = "awaitingExpected"
    /\ UNCHANGED <<scorer, opts, llm, in, result>>

\* Embed(ctx, expected) returns an error and Score calls it again
EmbedExpectedRetried ==
    /\ scorer = "EmbeddingSimilarity"
    /\ pc = "awaitingExpected"
    /\ calls < 3
    /\ \E err \in EmbedErrorSet : reply' = [reply EXCEPT !.err = err]
    /\ calls' = calls + 1
    /\ UNCHANGED <<scorer, opts, llm, in, pc, result>>

\* Embed(ctx, expected) returns an error: Score returns it
EmbedExpectedFails ==
    /\ scorer = "EmbeddingSimilarity"
    /\ pc = "awaitingExpected"
    /\ \E err \in EmbedErrorSet :
          /\ reply' = [reply EXCEPT !.err = err]
          /\ result' = similarityError(Wrapf("failed to embed expected: ", err))
    /\ pc' = "done"
    /\ UNCHANGED <<scorer, opts, llm, in, calls>>

\* Embed(ctx, expected) returns a vector: Score runs to its return
EmbedExpectedReturns ==
    /\ scorer = "EmbeddingSimilarity"
    /\ pc = "awaitingExpected"
    /\ \E expectedEmbed \in EmbeddingSet :
          /\ reply' = [reply EXCEPT !.response = Append(@, expectedEmbed)]
          /\ result' = similarityResult(reply.response[1], expectedEmbed)
    /\ pc' = "done"
    /\ UNCHANGED <<scorer, opts, llm, in, calls>>

EmbeddingNext ==
    \/ EmbeddingScoreNoExpected
    \/ EmbeddingScoreNilEmbedder
    \/ EmbeddingScoreCallsEmbed
    \/ EmbedOutputFails
    \/ EmbedOutputReturns
    \/ EmbedExpectedFails
    \/ EmbedExpectedReturns

SpecEmbedding == EmbeddingInit /\ [][EmbeddingNext]_vars

---------------------------------------------------------------------------
(* llmjudge.Moderation *)

\* a ModerationResult holds at most MaxCategories categories
MaxCategories == 2

CategoryNameSet == {"Toxic", "Violent", "Sexual"}

\* confidences: none, 0.25, 0.5 (the default threshold) and 0.8
ConfidenceSet == {Zero, Rat(1, 4), Rat(1, 2), Rat(4, 5)}

\* interfaces.ModerationCategory
ModerationCategorySet == [Name : CategoryNameSet, Confidence : ConfidenceSet]

\* the Categories slice of a ModerationResult
ModerationResultSet == UNION {[1..n -> ModerationCategorySet] : n \in 0..MaxCategories}

ModerationErrorSet == {Errorf("API error")}

\* ModerationOptions: threshold negative, unset, 0.25 and 0.5; all categories,
\* one or two
ModerationOptionsSet ==
    [Threshold : {Rat(-1, 4), Zero, Rat(1, 4), Rat(1, 2)},
     Categories : {<<>>, <<"Toxic">>, <<"Toxic", "Violent">>}]

\* threshold: opts.Threshold, 0.5 when that is not positive
effectiveThreshold(o) == IF RLe(o.Threshold, Zero) THEN Rat(1, 2) ELSE o.Threshold

\* categoryIncluded: all categories when opts.Categories is empty
categoryIncluded(o, category) ==
    Len(o.Categories) > 0 => \E j \in 1..Len(o.Categories) : category.Name = o.Categories[j]

\* category.Confidence >= threshold
atOrOverThreshold(conf, threshold) == RGe(conf, threshold)

\* category.Confidence > threshold
overThreshold(conf, threshold) == RGt(conf, threshold)

\* the loop with the flagging kept and the verdict left as it was set before it
RECURSIVE checkCategoriesFlagging(_, _, _)
checkCategoriesFlagging(o, categories, n) ==
    IF n = 0 THEN [flaggedCategories |-> <<>>, isUnsafe |-> FALSE]
    ELSE LET before == checkCategoriesFlagging(o, categories, n - 1)
             category == categories[n]
         IN  IF /\ categoryIncluded(o, category)
                /\ overThreshold(category.Confidence, effectiveThreshold(o))
             THEN [flaggedCategories |->
                      Entry(category.Name, category.Confidence) @@ before.flaggedCategories,
                   isUnsafe |-> before.isUnsafe]
             ELSE before

\* flaggedCategories and isUnsafe after the first n categories of the loop
RECURSIVE checkCategories(_, _, _)
checkCategories(o, categories, n) ==
    IF n = 0 THEN [flaggedCategories |-> <<>>, isUnsafe |-> FALSE]
    ELSE LET before == checkCategories(o, categories, n - 1)
             category == categories[n]
         IN  IF /\ categoryIncluded(o, category)
                /\ overThreshold(category.Confidence, effectiveThreshold(o))
             THEN [flaggedCategories |->
                      Entry(category.Name, category.Confidence) @@ before.flaggedCategories,
                   isUnsafe |-> TRUE]
             ELSE before

\* the Score returned for the categories of a moderation result
moderationResult(o, categories) ==
    LET checked == checkCategories(o, categories, Len(categories))
    IN  [Name |-> "Moderation",
         Score |-> IF checked.isUnsafe THEN Zero ELSE One,
         Error |-> NilError,
         Metadata |->
            Entry("flagged_categories", checked.flaggedCategories)
            @@ Entry("threshold", effectiveThreshold(o))
            @@ Entry("all_categories", categories)
            @@ Entry("is_safe", ~checked.isUnsafe)]

\* the Score of a failed call, were a failure to count as safe
moderationErrorSafe(err) ==
    [Name |-> "Moderation", Score |-> One, Error |-> err, Metadata |-> <<>>]

\* the Score of a failed call
moderationError(err) ==
    [Name |-> "Moderation", Score |-> Zero, Error |-> err, Metadata |-> <<>>]

\* a non-nil *ModerationResult
ResultValue(categories) == [type |-> "result", Categories |-> categories]

\* Moderation(provider, opts); llm is the provider
ModerationInit ==
    /\ scorer = "Moderation"
    /\ opts \in ModerationOptionsSet
    /\ llm \in {"nil", "provider"}
    /\ in = TonalityInputs
    /\ pc = "idle"
    /\ calls = 0
    /\ reply = NoReply
    /\ result = emptyResult("Moderation")

\* Score without a provider returns an error
ModerationScoreNilProvider ==
    /\ scorer = "Moderation"
    /\ pc = "idle"
    /\ llm = "nil"
    /\ result' = moderationError(Errorf("moderation provider is required"))
    /\ pc' = "done"
    /\ UNCHANGED <<scorer, opts, llm, in, calls, reply>>

\* Score calls s.provider.Moderate(ctx, content) without looking at s.provider
ModerationScoreCallsAnyProvider ==
    /\ scorer = "Moderation"
    /\ pc = "idle"
    /\ calls' = calls + 1
    /\ pc' = "awaiting"
    /\ UNCHANGED <<scorer, opts, llm, in, reply, result>>

\* Score calls s.provider.Moderate(ctx, content)
ModerationScoreCallsModerate ==
    /\ scorer = "Moderation"
    /\ pc = "idle"
    /\ llm # "nil"
    /\ calls' = calls + 1
    /\ pc' = "awaiting"
    /\ UNCHANGED <<scorer, opts, llm, in, reply, result>>

\* Moderate returns an error: Score returns it
ModerateFails ==
    /\ scorer = "Moderation"
    /\ pc = "awaiting"
    /\ \E err \in ModerationErrorSet :
          /\ reply' = [response |-> NilValue, err |-> err]
          /\ result' = moderationError(Wrapf("failed to moderate content: ", err))
    /\ pc' = "done"
    /\ UNCHANGED <<scorer, opts, llm, in, calls>>

\* Moderate returns a result: Score runs to its return
ModerateReturns ==
    /\ scorer = "Moderation"
    /\ pc = "awaiting"
    /\ \E categories \in ModerationResultSet :
          /\ reply' = [response |-> ResultValue(categories), err |-> NilError]
          /\ result' = moderationResult(opts, categories)
    /\ pc' = "done"
    /\ UNCHANGED <<scorer, opts, llm, in, calls>>

\* Moderate returns a nil result and a nil error: reading
\* moderationResp.Categories dereferences the nil pointer and Score panics
ModerateReturnsNil ==
    /\ scorer = "Moderation"
    /\ pc = "awaiting"
    /\ reply' = [response |-> NilValue, err |-> NilError]
    /\ pc' = "panicked"
    /\ UNCHANGED <<scorer, opts, llm, in, calls, result>>

ModerationNext ==
    \/ ModerationScoreNilProvider
    \/ ModerationScoreCallsModerate
    \/ ModerateFails
    \/ ModerateReturns
    \/ ModerateReturnsNil

SpecModeration == ModerationInit /\ [][ModerationNext]_vars

---------------------------------------------------------------------------
(* llmjudge.Factuality *)

\* choiceScores[choice]; a key that is not in the map reads as 0
choiceScores(choice) ==
    CASE choice = "A" -> Rat(2, 5)
      [] choice = "B" -> Rat(3, 5)
      [] choice = "C" -> One
      [] choice = "D" -> Zero
      [] choice = "E" -> One
      [] OTHER -> Zero

\* the Score of a failed call; metadata as the branch set it
factualityError(err, metadata) ==
    [Name |-> "Factuality", Score |-> Zero, Error |-> err, Metadata |-> metadata]

\* factualityResponse with the explanation extracted before the choice
factualityResponseExplanationFirst(structuredResponse) ==
    IF ~IsString(structuredResponse, "explanation")
    THEN factualityError(Errorf("failed to extract explanation from structured response"),
                         Entry("raw_response", structuredResponse))
    ELSE IF ~IsString(structuredResponse, "choice")
    THEN factualityError(Errorf("failed to extract choice from structured response"),
                         Entry("raw_response", structuredResponse))
    ELSE [Name |-> "Factuality",
          Score |-> choiceScores(structuredResponse["choice"].str),
          Error |-> NilError,
          Metadata |->
             Entry("choice", structuredResponse["choice"].str)
             @@ Entry("explanation", structuredResponse["explanation"].str)
             @@ Entry("raw_response", structuredResponse)]

\* factualityScorer.Score from the return of StructuredGenerate (err == nil) on
factualityResponse(structuredResponse) ==
    IF ~IsString(structuredResponse, "choice")
    THEN factualityError(Errorf("failed to extract choice from structured response"),
                         Entry("raw_response", structuredResponse))
    ELSE IF ~IsString(structuredResponse, "explanation")
    THEN factualityError(Errorf("failed to extract explanation from structured response"),
                         Entry("raw_response", structuredResponse))
    ELSE [Name |-> "Factuality",
          Score |-> choiceScores(structuredResponse["choice"].str),
          Error |-> NilError,
          Metadata |->
             Entry("choice", structuredResponse["choice"].str)
             @@ Entry("explanation", structuredResponse["explanation"].str)
             @@ Entry("raw_response", structuredResponse)]

\* the response map holding choice c and explanation e, where present
factualityResponseOf(c, e) ==
    [k \in {key \in {"choice", "explanation"} :
               (IF key = "choice" THEN c ELSE e) # Absent} |->
        IF k = "choice" THEN c ELSE e]

\* what the judge may answer: a choice of the alphabet or outside it, a value
\* that is not a string or none, with or without a string explanation, or null
FactualityResponseSet ==
    {factualityResponseOf(c, e) :
        c \in {StringValue(l) : l \in Letters \cup {"F"}} \cup {NumberValue(One), Absent},
        e \in {StringValue("because"), NumberValue(One), Absent}}
    \cup {NilMap}

\* Output is given; Expected may be missing
FactualityInputsSet == [Output : {<<"a">>}, Expected : {EmptyString, <<"a">>}]

\* FactualityOptions has no fields
FactualityOptionsValue == <<>>

\* Factuality(llm, opts)
FactualityInit ==
    /\ scorer = "Factuality"
    /\ opts = FactualityOptionsValue
    /\ llm \in {"nil", "generator"}
    /\ in \in FactualityInputsSet
    /\ pc = "idle"
    /\ calls = 0
    /\ reply = NoReply
    /\ result = emptyResult("Factuality")

\* Score with an empty Expected returns ErrNoExpectedValue
FactualityScoreNoExpected ==
    /\ scorer = "Factuality"
    /\ pc = "idle"
    /\ in.Expected = EmptyString
    /\ result' = factualityError(ErrNoExpectedValue, <<>>)
    /\ pc' = "done"
    /\ UNCHANGED <<scorer, opts, llm, in, calls, reply>>

\* Score without an LLM returns an error, whatever Expected is
FactualityScoreNilLLMFirst ==
    /\ scorer = "Factuality"
    /\ pc = "idle"
    /\ llm = "nil"
    /\ result' = factualityError(Errorf("LLM generator is required"), <<>>)
    /\ pc' = "done"
    /\ UNCHANGED <<scorer, opts, llm, in, calls, reply>>

\* Score without an LLM returns an error
FactualityScoreNilLLM ==
    /\ scorer = "Factuality"
    /\ pc = "idle"
    /\ in.Expected # EmptyString
    /\ llm = "nil"
    /\ result' = factualityError(Errorf("LLM generator is required"), <<>>)
    /\ pc' = "done"
    /\ UNCHANGED <<scorer, opts, llm, in, calls, reply>>

\* Score builds the prompt and the schema and calls s.llm.StructuredGenerate
FactualityScoreCallsStructuredGenerate ==
    /\ scorer = "Factuality"
    /\ pc = "idle"
    /\ in.Expected # EmptyString
    /\ llm # "nil"
    /\ calls' = calls + 1
    /\ pc' = "awaiting"
    /\ UNCHANGED <<scorer, opts, llm, in, reply, result>>

\* StructuredGenerate returns an error: Score returns it wrapped
FactualityGenerateFails ==
    /\ scorer = "Factuality"
    /\ pc = "awaiting"
    /\ \E err \in LLMErrorSet :
          /\ reply' = [response |-> NilValue, err |-> err]
          /\ result' = factualityError(WrapLLMGenerationFailed(err), <<>>)
    /\ pc' = "done"
    /\ UNCHANGED <<scorer, opts, llm, in, calls>>

\* StructuredGenerate returns a response: Score runs to its return
FactualityGenerateReturns ==
    /\ scorer = "Factuality"
    /\ pc = "awaiting"
    /\ \E structuredResponse \in FactualityResponseSet :
          /\ reply' = [response |-> structuredResponse, err |-> NilError]
          /\ result' = factualityResponse(structuredResponse)
    /\ pc' = "done"
    /\ UNCHANGED <<scorer, opts, llm, in, calls>>

FactualityNext ==
    \/ FactualityScoreNoExpected
    \/ FactualityScoreNilLLM
    \/ FactualityScoreCallsStructuredGenerate
    \/ FactualityGenerateFails
    \/ FactualityGenerateReturns

---------------------------------------------------------------------------
(* Every scorer of the library *)

\* Tonality options for the runs over all scorers: every weight negative, zero
\* or positive
ScorersTonalityOptionsSet ==
    [ProfessionalismWeight : {Rat(-1, 10), Zero, Rat(3, 10)},
     KindnessWeight : {Rat(-1, 10), Zero, Rat(3, 10)},
     ClarityWeight : {Rat(-1, 10), Zero, Rat(3, 10)},
     HelpfulnessWeight : {Rat(-1, 10), Zero, Rat(3, 10)},
     Threshold : ThresholdSet]

ScorersTonalityInit ==
    /\ scorer = "Tonality"
    /\ opts \in ScorersTonalityOptionsSet
    /\ llm \in {"nil", "generator"}
    /\ in = TonalityInputs
    /\ pc = "idle"
    /\ calls = 0
    /\ reply = NoReply
    /\ result = newResult

\* one scorer is constructed and its Score is called once
ScorersInit ==
    \/ ExactMatchInit
    \/ EmbeddingInit
    \/ FactualityInit
    \/ ModerationInit
    \/ ScorersTonalityInit

ScorersNext ==
    \/ ExactMatchNext
    \/ EmbeddingNext
    \/ FactualityNext
    \/ ModerationNext
    \/ TonalityNext

SpecScorers == ScorersInit /\ [][ScorersNext]_vars

---------------------------------------------------------------------------
(* Concurrent Score calls on one Tonality scorer *)

\* the number of goroutines calling Score on the same scorer
NumCalls == 2

CallIds == 1..NumCalls

\* options with a negative, a zero and positive weights, the default weights,
\* and one positive weight
ConcurrentOptionsSet ==
    {[ProfessionalismWeight |-> Rat(-1, 10), KindnessWeight |-> Zero,
      ClarityWeight |-> Rat(3, 10), HelpfulnessWeight |-> Rat(2, 10),
      Threshold |-> Rat(1, 2)],
     [ProfessionalismWeight |-> Zero, KindnessWeight |-> Zero,
      ClarityWeight |-> Zero, HelpfulnessWeight |-> Zero,
      Threshold |-> Zero],
     [ProfessionalismWeight |-> Rat(2, 1), KindnessWeight |-> Zero,
      ClarityWeight |-> Zero, HelpfulnessWeight |-> Zero,
      Threshold |-> Rat(1, 4)]}

\* what the judge answers a call: grades, a defective field, or null
ConcurrentResponseSet ==
    {responseOf([i \in DimIndex |-> StringValue("C")]),
     responseOf([i \in DimIndex |-> StringValue(IF i = 1 THEN "E" ELSE "A")]),
     responseOf([i \in DimIndex |-> StringValue(IF i = 3 THEN "B" ELSE "D")]),
     responseOf([i \in DimIndex |-> IF i = 2 THEN Absent ELSE StringValue("C")]),
     NilMap}

\* one scorer, NumCalls calls of Score not yet started; pc, reply and result
\* hold each call's position, collaborator reply and result
ConcurrentInit ==
    /\ scorer = "Tonality"
    /\ opts \in ConcurrentOptionsSet
    /\ llm \in {"nil", "generator"}
    /\ in = TonalityInputs
    /\ pc = [c \in CallIds |-> "idle"]
    /\ calls = 0
    /\ reply = [c \in CallIds |-> NoReply]
    /\ result = [c \in CallIds |-> newResult]

\* call c finds no LLM and returns an error
ConcurrentScoreNilLLM(c) ==
    /\ pc[c] = "idle"
    /\ llm = "nil"
    /\ result' = [result EXCEPT ![c] =
                     [newResult EXCEPT !.Error = Errorf("LLM generator is required"),
                                       !.Score = Zero]]
    /\ pc' = [pc EXCEPT ![c] = "done"]
    /\ UNCHANGED <<scorer, opts, llm, in, calls, reply>>

\* call c calls s.llm.StructuredGenerate
ConcurrentScoreCallsStructuredGenerate(c) ==
    /\ pc[c] = "idle"
    /\ llm # "nil"
    /\ calls' = calls + 1
    /\ pc' = [pc EXCEPT ![c] = "awaiting"]
    /\ UNCHANGED <<scorer, opts, llm, in, reply, result>>

\* StructuredGenerate returns to call c, an error or a response
ConcurrentStructuredGenerateReturns(c) ==
    /\ pc[c] = "awaiting"
    /\ \/ \E err \in LLMErrorSet :
             reply' = [reply EXCEPT ![c] = [response |-> NilValue, err |-> err]]
       \/ \E structuredResponse \in ConcurrentResponseSet :
             reply' = [reply EXCEPT ![c] = [response |-> structuredResponse, err |-> NilError]]
    /\ pc' = [pc EXCEPT ![c] = "replied"]
    /\ UNCHANGED <<scorer, opts, llm, in, calls, result>>

\* call c runs from the return of StructuredGenerate to its own return, were
\* the weights normalized in s.opts instead of in a local array
ConcurrentScoreFinishesInPlace(c) ==
    /\ pc[c] = "replied"
    /\ result' = [result EXCEPT ![c] =
                     IF reply[c].err # NilError
                     THEN returnError(WrapLLMGenerationFailed(reply[c].err), NilValue)
                     ELSE scoreResponse(opts, reply[c].response)]
    /\ opts' = LET weights == normalizeWeights(rawWeights(opts))
               IN  [opts EXCEPT !.ProfessionalismWeight = weights[1],
                                !.KindnessWeight = weights[2],
                                !.ClarityWeight = weights[3],
                                !.HelpfulnessWeight = weights[4]]
    /\ pc' = [pc EXCEPT ![c] = "done"]
    /\ UNCHANGED <<scorer, llm, in, calls, reply>>

\* call c runs from the return of StructuredGenerate to its own return: it
\* reads s.opts into local arrays and writes only its own result
ConcurrentScoreFinishes(c) ==
    /\ pc[c] = "replied"
    /\ result' = [result EXCEPT ![c] =
                     IF reply[c].err # NilError
                     THEN returnError(WrapLLMGenerationFailed(reply[c].err), NilValue)
                     ELSE scoreResponse(opts, reply[c].response)]
    /\ pc' = [pc EXCEPT ![c] = "done"]
    /\ UNCHANGED <<scorer, opts, llm, in, calls, reply>>

ConcurrentNext ==
    \E c \in CallIds :
        \/ ConcurrentScoreNilLLM(c)
        \/ ConcurrentScoreCallsStructuredGenerate(c)
        \/ ConcurrentStructuredGenerateReturns(c)
        \/ ConcurrentScoreFinishes(c)

SpecConcurrent == ConcurrentInit /\ [][ConcurrentNext]_vars

---------------------------------------------------------------------------
(* Tonality with fields beside the four grades in the judge's response *)

\* a JSON array, as the evidence fields hold
ArrayValue == [type |-> "array"]

\* what a response may carry beside the grades: nothing, a confidence out of
\* range, a confidence that is no number, an explanation, an evidence array, a
\* field no schema names, or all of these
ExtraFieldsSet ==
    LET outOfRange == Entry("professionalism_confidence", NumberValue(Rat(3, 2)))
        notNumber == Entry("kindness_confidence", StringValue("high"))
        explanation == Entry("clarity_explanation", StringValue("because"))
        evidence == Entry("helpfulness_evidence", ArrayValue)
        unknown == Entry("verdict", StringValue("A"))
    IN  {<<>>, outOfRange, notNumber, explanation, evidence, unknown,
         outOfRange @@ notNumber @@ explanation @@ evidence @@ unknown}

\* a grade field holds a letter, a value that is not a string, or is missing
ExtrasGradeSet ==
    {StringValue("A"), StringValue("D"), StringValue("E"), NumberValue(Rat(42, 1)), Absent}

ExtrasResponseSet ==
    {responseOf(f) @@ extra : f \in [DimIndex -> ExtrasGradeSet], extra \in ExtraFieldsSet}

TonalityExtrasInit ==
    /\ scorer = "Tonality"
    /\ opts \in ConcurrentOptionsSet
    /\ llm \in {"nil", "generator"}
    /\ in = TonalityInputs
    /\ pc = "idle"
    /\ calls = 0
    /\ reply = NoReply
    /\ result = newResult

TonalityExtrasNext ==
    \/ ScoreNilLLM
    \/ ScoreCallsStructuredGenerate
    \/ StructuredGenerateFails
    \/ StructuredGenerateReturnsFrom(ExtrasResponseSet)

SpecTonalityExtras == TonalityExtrasInit /\ [][TonalityExtrasNext]_vars

---------------------------------------------------------------------------
(* What the properties below read off a returned Score *)

\* Score has returned
Returned == pc = "done"

\* StructuredGenerate answered with a response whose four grade fields are strings
GradesExtracted ==
    /\ Returned
    /\ reply.err = NilError
    /\ \A i \in DimIndex : IsString(reply.response, Dimensions[i])

\* the raw weight of dimension i, as configured
optionWeight(i) ==
    CASE i = 1 -> opts.ProfessionalismWeight
      [] i = 2 -> opts.KindnessWeight
      [] i = 3 -> opts.ClarityWeight
      [] i = 4 -> opts.HelpfulnessWeight

\* the letter the judge gave dimension i
judgedGrade(i) == reply.response[Dimensions[i]].str

\* metadata of the returned Score
reportedChoice(i) == result.Metadata[Dimensions[i] \o ".choice"]
reportedScore(i) == result.Metadata[Dimensions[i] \o ".score"]
reportedWeight(i) == result.Metadata["weights." \o Dimensions[i]]

Sum4(a, b, c, d) == RAdd(RAdd(a, b), RAdd(c, d))

\* the sum over the four dimensions of reported weight times reported score
reportedWeightedSum ==
    Sum4(RMul(reportedWeight(1), reportedScore(1)),
         RMul(reportedWeight(2), reportedScore(2)),
         RMul(reportedWeight(3), reportedScore(3)),
         RMul(reportedWeight(4), reportedScore(4)))

\* the sum of the raw weights that are > 0
positiveOptionWeightSum ==
    Sum4(IF RGt(optionWeight(1), Zero) THEN optionWeight(1) ELSE Zero,
         IF RGt(optionWeight(2), Zero) THEN optionWeight(2) ELSE Zero,
         IF RGt(optionWeight(3), Zero) THEN optionWeight(3) ELSE Zero,
         IF RGt(optionWeight(4), Zero) THEN optionWeight(4) ELSE Zero)

\* some dimension with weight > 0 scores strictly below the threshold
SomeWeightedDimensionBelow ==
    \E i \in DimIndex :
        RGt(reportedWeight(i), Zero) /\ RLt(reportedScore(i), opts.Threshold)

---------------------------------------------------------------------------
(* Properties *)

\* C1: with Threshold > 0 and a valid judge response, the final score is 0 with
\* nil Error if some dimension of normalized weight > 0 has a score strictly
\* below Threshold, and otherwise (a score equal to Threshold included) the
\* weighted sum of the dimension scores; the raw score is compared, not
\* weight * score.
C1_ThresholdGate ==
    (GradesExtracted /\ RGt(opts.Threshold, Zero)) =>
        /\ result.Error = NilError
        /\ IF SomeWeightedDimensionBelow
           THEN result.Score = Zero
           ELSE result.Score = reportedWeightedSum

\* C1 witness: the gate leaves the composite alone although a weighted dimension
\* scores exactly Threshold and another weighted dimension's contribution
\* weight * score is below Threshold
C1_Witness ==
    /\ GradesExtracted
    /\ RGt(opts.Threshold, Zero)
    /\ \E i \in DimIndex :
          RGt(reportedWeight(i), Zero) /\ reportedScore(i) = opts.Threshold
    /\ \E i \in DimIndex :
          /\ RGt(reportedWeight(i), Zero)
          /\ RLt(RMul(reportedWeight(i), reportedScore(i)), opts.Threshold)
    /\ ~SomeWeightedDimensionBelow
    /\ RGt(result.Score, Zero)

\* C2 (as claimed): the Score field of every returned Score lies in [0,1]
C2_ScoreInUnitInterval ==
    Returned => (RGe(result.Score, Zero) /\ RLe(result.Score, One))

\* C3 (as claimed): when some raw weight is > 0, every dimension of raw weight
\* <= 0 has normalized weight exactly 0 and every positive raw weight becomes
\* rawWeight / (sum of the positive raw weights)
C3_NonPositiveWeightsExcluded ==
    (GradesExtracted /\ \E i \in DimIndex : RGt(optionWeight(i), Zero)) =>
        \A i \in DimIndex :
            IF RGt(optionWeight(i), Zero)
            THEN reportedWeight(i) = RDiv(optionWeight(i), positiveOptionWeightSum)
            ELSE reportedWeight(i) = Zero

\* C4 (as claimed): for every raw weight vector the normalized weights are all
\* non-negative and sum to 1
C4_WeightsNonNegativeSumToOne ==
    GradesExtracted =>
        /\ \A i \in DimIndex : RGe(reportedWeight(i), Zero)
        /\ Sum4(reportedWeight(1), reportedWeight(2),
                reportedWeight(3), reportedWeight(4)) = One

\* C5: when all four raw weights are <= 0 the normalized weights are 0.25 each,
\* and with the threshold disabled the final score is the arithmetic mean of
\* the four dimension scores
C5_DefaultEqualWeights ==
    (GradesExtracted /\ \A i \in DimIndex : RLe(optionWeight(i), Zero)) =>
        /\ \A i \in DimIndex : reportedWeight(i) = Rat(1, 4)
        /\ RLe(opts.Threshold, Zero) =>
              result.Score = RDiv(Sum4(reportedScore(1), reportedScore(2),
                                       reportedScore(3), reportedScore(4)),
                                  Rat(4, 1))

\* C5 witness: zero and negative raw weights mixed, threshold disabled, and a
\* mean that is neither 0 nor 1
C5_Witness ==
    /\ GradesExtracted
    /\ \A i \in DimIndex : RLe(optionWeight(i), Zero)
    /\ \E i \in DimIndex : optionWeight(i) = Zero
    /\ \E i \in DimIndex : RLt(optionWeight(i), Zero)
    /\ RLe(opts.Threshold, Zero)
    /\ result.Score = Rat(5, 8)

\* C6: with Threshold <= 0 and a valid judge response the final score is the
\* sum over the four dimensions of normalized weight times score, however low
\* a dimension scores
C6_GateDisabled ==
    (GradesExtracted /\ RLe(opts.Threshold, Zero)) =>
        /\ result.Error = NilError
        /\ result.Score = reportedWeightedSum

\* C6 witness: a negative threshold, a weighted dimension scoring 0, and a
\* composite that is not 0
C6_Witness ==
    /\ GradesExtracted
    /\ RLt(opts.Threshold, Zero)
    /\ \E i \in DimIndex :
          RGt(reportedWeight(i), Zero) /\ reportedScore(i) = Zero
    /\ RGt(result.Score, Zero)

\* the judge graded the four dimensions a, b, c, d
Graded(a, b, c, d) ==
    /\ GradesExtracted
    /\ judgedGrade(1) = a
    /\ judgedGrade(2) = b
    /\ judgedGrade(3) = c
    /\ judgedGrade(4) = d

\* the raw weights are [0.3, 0.2, 0.3, 0.2]
TestWeights ==
    /\ opts.ProfessionalismWeight = Rat(3, 10)
    /\ opts.KindnessWeight = Rat(2, 10)
    /\ opts.ClarityWeight = Rat(3, 10)
    /\ opts.HelpfulnessWeight = Rat(2, 10)

\* C7 (as claimed): 'A' is the best grade: with weights [0.3,0.2,0.3,0.2],
\* grades A,A,A,A give per-dimension scores 1.0 and composite 1.0, and grades
\* B,A,C,B give per-dimension scores 0.75, 1.0, 0.5, 0.75 and composite 0.725
C7_GradeAIsBest ==
    /\ (TestWeights /\ Graded("A", "A", "A", "A")) =>
          /\ \A i \in DimIndex : reportedScore(i) = One
          /\ result.Score = One
    /\ (TestWeights /\ Graded("B", "A", "C", "B")) =>
          /\ reportedScore(1) = Rat(3, 4)
          /\ reportedScore(2) = One
          /\ reportedScore(3) = Rat(1, 2)
          /\ reportedScore(4) = Rat(3, 4)
          /\ result.Score = Rat(29, 40)

\* position of a letter in the alphabet
letterOrdinal(c) ==
    CASE c = "A" -> 1 [] c = "B" -> 2 [] c = "C" -> 3 [] c = "D" -> 4 [] c = "E" -> 5

EvenlySpacedScores == {Rat(k, 4) : k \in 0..4}

\* C8: the grade table is total on {A,B,C,D,E}, its scores are exactly
\* {0, 0.25, 0.5, 0.75, 1.0}, and the per-dimension scores of every result are
\* the table's: distinct letters get distinct scores, ordered as the letters
\* are (all ascending or all descending)
C8_GradeTableBijection ==
    /\ Letters \subseteq DOMAIN choiceToScore
    /\ {choiceToScore[c] : c \in Letters} = EvenlySpacedScores
    /\ \/ \A c, e \in Letters :
             letterOrdinal(c) < letterOrdinal(e) => RLt(choiceToScore[c], choiceToScore[e])
       \/ \A c, e \in Letters :
             letterOrdinal(c) < letterOrdinal(e) => RGt(choiceToScore[c], choiceToScore[e])
    /\ (GradesExtracted /\ \A i \in DimIndex : judgedGrade(i) \in Letters) =>
          /\ \A i \in DimIndex : reportedScore(i) \in EvenlySpacedScores
          /\ \A i, j \in DimIndex :
                (reportedScore(i) = reportedScore(j)) = (judgedGrade(i) = judgedGrade(j))
          /\ \/ \A i, j \in DimIndex :
                   letterOrdinal(judgedGrade(i)) < letterOrdinal(judgedGrade(j))
                      => RLt(reportedScore(i), reportedScore(j))
             \/ \A i, j \in DimIndex :
                   letterOrdinal(judgedGrade(i)) < letterOrdinal(judgedGrade(j))
                      => RGt(reportedScore(i), reportedScore(j))

\* C8 witness: a result whose four dimensions hold four different letters,
\* the two ends of the alphabet among them
C8_Witness ==
    /\ GradesExtracted
    /\ \A i \in DimIndex : judgedGrade(i) \in Letters
    /\ Cardinality({judgedGrade(i) : i \in DimIndex}) = 4
    /\ {"A", "E"} \subseteq {judgedGrade(i) : i \in DimIndex}

\* C9 (as claimed): a grade field holding a string outside {A,B,C,D,E} makes
\* Score return a non-nil Error with score 0
C9_UnknownLetterRejected ==
    (GradesExtracted /\ \E i \in DimIndex : judgedGrade(i) \notin Letters) =>
        /\ result.Error # NilError
        /\ result.Score = Zero

\* dimension i is the first, in the fixed order, whose field is missing or not a string
FirstOffending(i) ==
    /\ ~IsString(reply.response, Dimensions[i])
    /\ \A j \in DimIndex : j < i => IsString(reply.response, Dimensions[j])

\* C10: when the response lacks a grade field or holds a non-string value for
\* one, Score returns score 0 with an Error naming the first offending field
\* in the order professionalism, kindness, clarity, helpfulness, and the
\* metadata holds raw_response (the whole response) with empty choices and 0.0
\* scores and weights
C10_FirstOffendingFieldReported ==
    \A i \in DimIndex :
        (Returned /\ reply.err = NilError /\ reply # NoReply /\ FirstOffending(i)) =>
            /\ result.Score = Zero
            /\ result.Error.msg =
                  "failed to extract " \o Dimensions[i] \o " choice from structured response"
            /\ result.Metadata["raw_response"] = reply.response
            /\ \A j \in DimIndex :
                  /\ reportedChoice(j) = ""
                  /\ reportedScore(j) = Zero
                  /\ reportedWeight(j) = Zero

\* C10 witness: two fields offend, one missing and one not a string, after a
\* field that is a string; the Error names the earlier of the two
C10_Witness ==
    /\ Returned
    /\ IsString(reply.response, "professionalism")
    /\ "kindness" \notin DOMAIN reply.response
    /\ IsFloat64(reply.response, "helpfulness")
    /\ result.Error.msg = "failed to extract kindness choice from structured response"
    /\ "kindness" \notin DOMAIN result.Metadata["raw_response"]

reportedConfidence(i) == result.Metadata[Dimensions[i] \o ".confidence"]

\* the <dimension>_confidence field of the response is absent or not a number
NoConfidenceGiven(i) ==
    \/ Dimensions[i] \o "_confidence" \notin DOMAIN reply.response
    \/ reply.response[Dimensions[i] \o "_confidence"].type # "number"

givenConfidence(i) == reply.response[Dimensions[i] \o "_confidence"].num

\* C11: with the four grade fields present, Score succeeds whatever the
\* optional fields hold, and <dimension>.confidence is 0.7 when
\* <dimension>_confidence is absent or not a number, and otherwise the
\* supplied number clamped into [0,1]
C11_ConfidenceDefaultAndClamp ==
    GradesExtracted =>
        /\ result.Error = NilError
        /\ \A i \in DimIndex :
              IF NoConfidenceGiven(i)
              THEN reportedConfidence(i) = Rat(7, 10)
              ELSE /\ RLt(givenConfidence(i), Zero) => reportedConfidence(i) = Zero
                   /\ RGt(givenConfidence(i), One) => reportedConfidence(i) = One
                   /\ (RGe(givenConfidence(i), Zero) /\ RLe(givenConfidence(i), One))
                         => reportedConfidence(i) = givenConfidence(i)

\* C11 witness: one response with a confidence absent, one that is a string,
\* one above 1 and one inside [0,1]
C11_Witness ==
    /\ GradesExtracted
    /\ "professionalism_confidence" \notin DOMAIN reply.response
    /\ IsString(reply.response, "kindness_confidence")
    /\ IsFloat64(reply.response, "clarity_confidence")
    /\ RGt(givenConfidence(3), One)
    /\ IsFloat64(reply.response, "helpfulness_confidence")
    /\ givenConfidence(4) = Rat(3, 10)
    /\ reportedConfidence(1) = Rat(7, 10)
    /\ reportedConfidence(2) = Rat(7, 10)
    /\ reportedConfidence(3) = One
    /\ reportedConfidence(4) = Rat(3, 10)

\* the strings left of str by removing a run of white space at its front and
\* one at its back so that neither end of the rest is white space
TrimsOf(str) ==
    {SubSeq(str, i, j) : <<i, j>> \in
        {ij \in (1..(Len(str) + 1)) \X (0..Len(str)) :
            /\ \A k \in 1..(ij[1] - 1) : IsSpace(str[k])
            /\ \A k \in (ij[2] + 1)..Len(str) : IsSpace(str[k])
            /\ ij[1] <= ij[2] => (~IsSpace(str[ij[1]]) /\ ~IsSpace(str[ij[2]]))}}

\* x and y are the same string up to the case of their letters
SameUpToCase(x, y) ==
    /\ Len(x) = Len(y)
    /\ \A k \in 1..Len(x) : x[k] = y[k] \/ {x[k], y[k]} = {"a", "A"}

\* Output and Expected are equal once trimmed (if TrimWhitespace) and then
\* case-folded (if CaseInsensitive)
EqualAsConfigured ==
    \E x \in (IF opts.TrimWhitespace THEN TrimsOf(in.Output) ELSE {in.Output}) :
    \E y \in (IF opts.TrimWhitespace THEN TrimsOf(in.Expected) ELSE {in.Expected}) :
        IF opts.CaseInsensitive THEN SameUpToCase(x, y) ELSE x = y

\* C16: for a non-empty Expected, ExactMatch returns nil Error and score 1 if
\* Output and Expected are equal after trimming (if TrimWhitespace) and case
\* folding (if CaseInsensitive), and score 0 otherwise
C16_ExactMatchScore ==
    (scorer = "ExactMatch" /\ Returned /\ in.Expected # EmptyString) =>
        /\ result.Error = NilError
        /\ result.Score = IF EqualAsConfigured THEN One ELSE Zero

\* C16 witness: Output " A " matches Expected "a" with both options set
C16_Witness ==
    /\ scorer = "ExactMatch"
    /\ Returned
    /\ opts.TrimWhitespace /\ opts.CaseInsensitive
    /\ in.Output = <<" ", "A", " ">>
    /\ in.Expected = <<"a">>
    /\ result.Score = One

\* C17 (as claimed): every Score returned by ExactMatch, the missing-expected
\* failure included, carries the metadata case_insensitive, trim_whitespace,
\* output_length and expected_length
C17_ExactMatchMetadataAlways ==
    (scorer = "ExactMatch" /\ Returned) =>
        /\ {"case_insensitive", "trim_whitespace", "output_length", "expected_length"}
              \subseteq DOMAIN result.Metadata
        /\ result.Metadata["case_insensitive"] = opts.CaseInsensitive
        /\ result.Metadata["trim_whitespace"] = opts.TrimWhitespace
        /\ result.Metadata["output_length"] = Len(in.Output)
        /\ result.Metadata["expected_length"] = Len(in.Expected)

\* both embeddings arrived and Score returned
BothEmbedded ==
    /\ scorer = "EmbeddingSimilarity"
    /\ Returned
    /\ reply.err = NilError
    /\ Len(reply.response) = 2

outputEmbedding == reply.response[1]
expectedEmbedding == reply.response[2]

\* a vector of the dimension of a all of whose components are zero
IsZeroVector(a) == \A i \in 1..Len(a) : a[i] = Zero

\* the embeddings have one dimension and neither is a zero vector
Comparable ==
    /\ Len(outputEmbedding) = Len(expectedEmbedding)
    /\ ~IsZeroVector(outputEmbedding)
    /\ ~IsZeroVector(expectedEmbedding)

\* a is k times b
IsMultiple(a, k, b) == Len(a) = Len(b) /\ \A i \in 1..Len(a) : a[i] = RMul(k, b[i])

\* the inner product of the two embeddings received
innerProduct == dotProduct(outputEmbedding, expectedEmbedding, Len(outputEmbedding))

\* sim is the cosine of the angle between the two embeddings: it has the sign
\* of their inner product and sim^2 |a|^2 |b|^2 = (a . b)^2
IsCosineOfEmbeddings(sim) ==
    /\ RLt(sim, Zero) <=> RLt(innerProduct, Zero)
    /\ RMul(RMul(sim, sim),
            RMul(dotProduct(outputEmbedding, outputEmbedding, Len(outputEmbedding)),
                 dotProduct(expectedEmbedding, expectedEmbedding, Len(expectedEmbedding))))
         = RMul(innerProduct, innerProduct)

\* C18 (as claimed): once both embeddings arrived EmbeddingSimilarity returns
\* nil Error and score (sim + 1) / 2 cut to [0,1], sim the cosine similarity of
\* the embeddings: 1 for embeddings of one direction, 0 for opposite ones, 0.5
\* for orthogonal ones; embeddings of different lengths or a zero vector give
\* cosine_similarity 0 and score 0.5
C18_SimilarityScore ==
    BothEmbedded =>
        LET sim == result.Metadata["cosine_similarity"]
        IN  /\ result.Error = NilError
            /\ result.Score = clamp01(RDiv(RAdd(sim, One), Rat(2, 1)))
            /\ Comparable => IsCosineOfEmbeddings(sim)
            /\ (Comparable /\ \E k \in {Rat(1, 2), One, Rat(2, 1)} :
                    IsMultiple(outputEmbedding, k, expectedEmbedding))
                  => result.Score = One
            /\ (Comparable /\ \E k \in {Rat(-1, 2), Rat(-1, 1), Rat(-2, 1)} :
                    IsMultiple(outputEmbedding, k, expectedEmbedding))
                  => result.Score = Zero
            /\ (Comparable /\ innerProduct = Zero) => result.Score = Rat(1, 2)
            /\ ~Comparable => (sim = Zero /\ result.Score = Rat(1, 2))

\* math.Sqrt returns the norms of both embeddings without rounding
ExactNorms ==
    LET normA2 == dotProduct(outputEmbedding, outputEmbedding, Len(outputEmbedding))
        normB2 == dotProduct(expectedEmbedding, expectedEmbedding, Len(expectedEmbedding))
    IN  /\ IsSquare(normA2.n) /\ IsSquare(normA2.d)
        /\ IsSquare(normB2.n) /\ IsSquare(normB2.d)

\* C18 (amended): once both embeddings arrived EmbeddingSimilarity returns nil
\* Error and score (sim + 1) / 2 cut to [0,1], sim the value reported as
\* cosine_similarity; orthogonal embeddings score 0.5, embeddings of different
\* lengths or a zero vector give cosine_similarity 0 and score 0.5; sim is the
\* cosine of the embeddings, 1 for one direction and 0 for opposite ones, when
\* the norms are computed without rounding
C18_SimilarityScoreUpToRounding ==
    BothEmbedded =>
        LET sim == result.Metadata["cosine_similarity"]
        IN  /\ result.Error = NilError
            /\ result.Score = clamp01(RDiv(RAdd(sim, One), Rat(2, 1)))
            /\ (Comparable /\ ExactNorms) => IsCosineOfEmbeddings(sim)
            /\ (Comparable /\ ExactNorms /\ \E k \in {Rat(1, 2), One, Rat(2, 1)} :
                    IsMultiple(outputEmbedding, k, expectedEmbedding))
                  => result.Score = One
            /\ (Comparable /\ ExactNorms /\ \E k \in {Rat(-1, 2), Rat(-1, 1), Rat(-2, 1)} :
                    IsMultiple(outputEmbedding, k, expectedEmbedding))
                  => result.Score = Zero
            /\ (Comparable /\ innerProduct = Zero) => result.Score = Rat(1, 2)
            /\ ~Comparable => (sim = Zero /\ result.Score = Rat(1, 2))

\* C18 witness: the embeddings (2,0) and (3/5,4/5) score 0.8, cosine 0.6
C18_Witness ==
    /\ BothEmbedded
    /\ outputEmbedding = <<Rat(2, 1), Zero>>
    /\ expectedEmbedding = <<Rat(3, 5), Rat(4, 5)>>
    /\ result.Metadata["cosine_similarity"] = Rat(3, 5)
    /\ result.Score = Rat(4, 5)

\* Moderate returned a result and Score returned
Moderated ==
    /\ scorer = "Moderation"
    /\ Returned
    /\ reply.err = NilError
    /\ reply.response.type = "result"

\* the categories Moderate returned
returnedCategories == reply.response.Categories

\* the threshold the claim calls effective
claimedThreshold == IF RGt(opts.Threshold, Zero) THEN opts.Threshold ELSE Rat(1, 2)

\* the returned categories the claim calls evaluated
evaluatedCategories ==
    {returnedCategories[i] : i \in
        {j \in 1..Len(returnedCategories) :
            \/ opts.Categories = <<>>
            \/ returnedCategories[j].Name \in
                  {opts.Categories[k] : k \in 1..Len(opts.Categories)}}}

ExpectedRequiring == scorer \in {"ExactMatch", "EmbeddingSimilarity", "Factuality"}

\* the scorers that have an external collaborator
HasCollaborator == scorer \in {"Factuality", "Tonality", "Moderation", "EmbeddingSimilarity"}

\* C12: with an empty Expected, ExactMatch, EmbeddingSimilarity and Factuality
\* never call their collaborator and return score 0 with ErrNoExpectedValue,
\* a nil collaborator included
C12_MissingExpected ==
    (ExpectedRequiring /\ in.Expected = EmptyString) =>
        /\ calls = 0
        /\ pc \in {"idle", "done"}
        /\ Returned => (result.Score = Zero /\ result.Error = ErrNoExpectedValue)

\* C12 witness: Factuality without an LLM and without Expected returned
\* ErrNoExpectedValue
C12_Witness ==
    /\ scorer = "Factuality"
    /\ llm = "nil"
    /\ in.Expected = EmptyString
    /\ Returned
    /\ result.Error = ErrNoExpectedValue
    /\ calls = 0

\* C13 (as claimed): one Score call of any scorer issues at most one call to
\* its collaborator
C13_AtMostOneCall == HasCollaborator => calls <= 1

\* C13 (amended): one Score call of Factuality, Tonality or Moderation issues
\* at most one call to its collaborator; one of EmbeddingSimilarity issues at
\* most two, Embed of Output and, once that returned a vector, Embed of Expected
C13_CallsPerScore ==
    /\ scorer \in {"Factuality", "Tonality", "Moderation"} => calls <= 1
    /\ scorer = "EmbeddingSimilarity" =>
          /\ calls <= 2
          /\ calls = 2 => Len(reply.response) >= 1

\* C13 witness: EmbeddingSimilarity returned after two Embed calls
C13_Witness ==
    /\ scorer = "EmbeddingSimilarity"
    /\ Returned
    /\ calls = 2
    /\ Len(reply.response) = 2

\* C14: a Score returned with a non-nil Error has score 0, whatever the scorer
C14_ErrorMeansZero ==
    (Returned /\ result.Error # NilError) => result.Score = Zero

\* C14 witness: Moderation returned the provider's failure with score 0
C14_Witness ==
    /\ scorer = "Moderation"
    /\ Returned
    /\ reply.err # NilError
    /\ result.Error = Wrapf("failed to moderate content: ", reply.err)
    /\ result.Score = Zero

\* C15 (as claimed): whatever a collaborator returns, Score returns a Score
\* value and never aborts
C15_ScoreNeverAborts == pc # "panicked"

\* the message of the error each scorer returns for a nil collaborator
requiredMessage ==
    CASE scorer = "EmbeddingSimilarity" -> "embedder is required"
      [] scorer = "Moderation" -> "moderation provider is required"
      [] OTHER -> "LLM generator is required"

\* C20: with a nil collaborator and inputs that pass the expected-value check,
\* Score never calls the collaborator and returns score 0 with an error saying
\* the collaborator is required
C20_NilCollaborator ==
    (HasCollaborator /\ llm = "nil" /\ ~(ExpectedRequiring /\ in.Expected = EmptyString)) =>
        /\ calls = 0
        /\ pc \in {"idle", "done"}
        /\ Returned => (result.Score = Zero /\ result.Error = Errorf(requiredMessage))

\* C20 witness: EmbeddingSimilarity without an embedder, Expected given,
\* returned "embedder is required"
C20_Witness ==
    /\ scorer = "EmbeddingSimilarity"
    /\ llm = "nil"
    /\ in.Expected # EmptyString
    /\ Returned
    /\ result.Error = Errorf("embedder is required")
    /\ result.Score = Zero
    /\ calls = 0

\* the Score call c returns when it runs alone on a scorer with options o and
\* its collaborator answers r
scoreAlone(o, collaborator, r) ==
    IF collaborator = "nil"
    THEN [Name |-> "Tonality", Score |-> Zero,
          Error |-> Errorf("LLM generator is required"), Metadata |-> <<>>]
    ELSE IF r.err # NilError
    THEN returnError(WrapLLMGenerationFailed(r.err), NilValue)
    ELSE scoreResponse(o, r.response)

FactualityJudged ==
    /\ scorer = "Factuality"
    /\ Returned
    /\ reply.err = NilError
    /\ IsString(reply.response, "choice")
    /\ IsString(reply.response, "explanation")

\* the choice the judge made
judgedChoice == reply.response["choice"].str

\* the score the claim gives each choice: A the best, E the worst
schoolGrade(choice) ==
    CASE choice = "A" -> One
      [] choice = "B" -> Rat(4, 5)
      [] choice = "C" -> Rat(3, 5)
      [] choice = "D" -> Rat(2, 5)
      [] choice = "E" -> Zero

\* C22 (as claimed): Factuality scores choice A 1.0, B 0.8, C 0.6, D 0.4 and
\* E 0.0, and echoes the choice and the explanation in the metadata
C22_FactualityGrades ==
    (FactualityJudged /\ judgedChoice \in Letters) =>
        /\ result.Error = NilError
        /\ result.Score = schoolGrade(judgedChoice)
        /\ result.Metadata["choice"] = judgedChoice
        /\ result.Metadata["explanation"] = reply.response["explanation"].str

\* some raw weight is > 0
SomeOptionWeightPositive == \E i \in DimIndex : RGt(optionWeight(i), Zero)

\* the dimensions the claim says the gate examines: those of raw weight > 0,
\* and all four when no raw weight is > 0
gatedDimensions ==
    IF SomeOptionWeightPositive
    THEN {i \in DimIndex : RGt(optionWeight(i), Zero)}
    ELSE DimIndex

\* C23: with Threshold > 0 the gate of Tonality examines exactly the dimensions
\* of normalized weight > 0, which are those of raw weight > 0, or all four
\* when no raw weight is > 0: the composite is 0 if one of them scores below
\* Threshold and the weighted sum otherwise, however low the others score
C23_GateExaminesWeightedDimensions ==
    (GradesExtracted /\ RGt(opts.Threshold, Zero)) =>
        /\ gatedDimensions = {i \in DimIndex : RGt(reportedWeight(i), Zero)}
        /\ result.Score =
              IF \E i \in gatedDimensions : RLt(reportedScore(i), opts.Threshold)
              THEN Zero
              ELSE reportedWeightedSum

\* C23 witness: only professionalism has a positive raw weight, it scores 0.75
\* over the threshold 0.5, the other three score 0, and the composite is 0.75
C23_Witness ==
    /\ Graded("D", "A", "A", "A")
    /\ opts.Threshold = Rat(1, 2)
    /\ RGt(optionWeight(1), Zero)
    /\ \A i \in 2..4 : optionWeight(i) = Zero
    /\ reportedWeight(1) = One
    /\ result.Score = Rat(3, 4)

\* what cosineSimilarity returned for the two embeddings
returnedSimilarity == result.Metadata["cosine_similarity"]

\* C24 (as claimed): cosineSimilarity returns 0 for vectors of different
\* lengths or a vector of norm 0 and otherwise dot(a,b) / (norm(a) * norm(b)):
\* 1 for v and v, -1 for v and -v, 0 for orthogonal vectors, and the same for
\* (a, b) as for (b, a)
C24_CosineSimilarity ==
    BothEmbedded =>
        /\ ~Comparable => returnedSimilarity = Zero
        /\ Comparable => IsCosineOfEmbeddings(returnedSimilarity)
        /\ (Comparable /\ outputEmbedding = expectedEmbedding) => returnedSimilarity = One
        /\ (Comparable /\ IsMultiple(outputEmbedding, Rat(-1, 1), expectedEmbedding))
              => returnedSimilarity = Rat(-1, 1)
        /\ (Comparable /\ innerProduct = Zero) => returnedSimilarity = Zero
        /\ returnedSimilarity = cosineSimilarity(expectedEmbedding, outputEmbedding)

\* C24 (amended): cosineSimilarity returns 0 for vectors of different lengths
\* or a vector of norm 0, 0 for orthogonal vectors, and the same for (a, b) as
\* for (b, a); when math.Sqrt returns both norms without rounding it returns
\* dot(a,b) / (norm(a) * norm(b)), 1 for v and v and -1 for v and -v
C24_CosineSimilarityUpToRounding ==
    BothEmbedded =>
        /\ ~Comparable => returnedSimilarity = Zero
        /\ (Comparable /\ ExactNorms) => IsCosineOfEmbeddings(returnedSimilarity)
        /\ (Comparable /\ ExactNorms /\ outputEmbedding = expectedEmbedding)
              => returnedSimilarity = One
        /\ (Comparable /\ ExactNorms
                /\ IsMultiple(outputEmbedding, Rat(-1, 1), expectedEmbedding))
              => returnedSimilarity = Rat(-1, 1)
        /\ (Comparable /\ innerProduct = Zero) => returnedSimilarity = Zero
        /\ returnedSimilarity = cosineSimilarity(expectedEmbedding, outputEmbedding)

\* C24 witness: (3/5,4/5) and its opposite have cosine similarity -1
C24_Witness ==
    /\ BothEmbedded
    /\ outputEmbedding = <<Rat(3, 5), Rat(4, 5)>>
    /\ expectedEmbedding = <<Rat(-3, 5), Rat(-4, 5)>>
    /\ returnedSimilarity = Rat(-1, 1)

\* the collaborator answered a call with an error
CollaboratorFailed == HasCollaborator /\ reply.err # NilError

\* C25: once the collaborator returned an error the call has returned, with
\* score 0 and a non-nil Error, which wraps ErrLLMGenerationFailed for
\* Factuality and Tonality, and the failed call was the last: the first call,
\* or in EmbeddingSimilarity the second only if the first one returned a vector
C25_FailureIsTerminal ==
    CollaboratorFailed =>
        /\ Returned
        /\ result.Score = Zero
        /\ result.Error # NilError
        /\ scorer \in {"Factuality", "Tonality"} =>
              ErrorsIs(result.Error, ErrLLMGenerationFailed)
        /\ calls = IF scorer = "EmbeddingSimilarity" THEN Len(reply.response) + 1 ELSE 1

\* C25 witness: Embed failed for Output and EmbeddingSimilarity returned after
\* that one call
C25_Witness ==
    /\ scorer = "EmbeddingSimilarity"
    /\ CollaboratorFailed
    /\ Len(reply.response) = 0
    /\ Returned
    /\ calls = 1
    /\ result.Error = Wrapf("failed to embed output: ", reply.err)

\* StructuredGenerate answered Factuality without an error
FactualityAnswered ==
    /\ scorer = "Factuality"
    /\ Returned
    /\ calls = 1
    /\ reply.err = NilError

\* C26: when the judge's answer lacks a string choice or a string explanation,
\* Factuality returns score 0, an Error naming the choice if that is the one
\* lacking (also when both are) and else the explanation, and the answer under
\* raw_response; an answer with both is not an error
C26_FactualityRequiresBothFields ==
    FactualityAnswered =>
        IF ~IsString(reply.response, "choice")
        THEN /\ result.Score = Zero
             /\ result.Error = Errorf("failed to extract choice from structured response")
             /\ result.Metadata["raw_response"] = reply.response
        ELSE IF ~IsString(reply.response, "explanation")
        THEN /\ result.Score = Zero
             /\ result.Error = Errorf("failed to extract explanation from structured response")
             /\ result.Metadata["raw_response"] = reply.response
        ELSE result.Error = NilError

\* C26 witness: an answer with neither field reports the choice
C26_Witness ==
    /\ FactualityAnswered
    /\ reply.response = factualityResponseOf(Absent, Absent)
    /\ result.Error = Errorf("failed to extract choice from structured response")
    /\ result.Score = Zero

\* StructuredGenerate answered Tonality without an error
TonalityAnswered ==
    /\ scorer = "Tonality"
    /\ Returned
    /\ calls = 1
    /\ reply.err = NilError

\* the response with only the four grade fields it has
gradeFieldsOf(structuredResponse) ==
    [k \in DOMAIN structuredResponse \cap {Dimensions[i] : i \in DimIndex} |->
        structuredResponse[k]]

\* C27: the score and the Error of Tonality are those of the response cut down
\* to its four grade fields, so two responses that agree on these get the same
\* score and the same Error whatever else they carry
C27_ExtraFieldsDoNotMatter ==
    TonalityAnswered =>
        LET gradesOnly == scoreResponse(opts, gradeFieldsOf(reply.response))
        IN  /\ result.Score = gradesOnly.Score
            /\ result.Error = gradesOnly.Error

\* C27 witness: a response with every kind of extra field and four grades D is
\* scored 0.75 without an error
C27_Witness ==
    /\ TonalityAnswered
    /\ {"professionalism_confidence", "kindness_confidence", "clarity_explanation",
        "helpfulness_evidence", "verdict"} \subseteq DOMAIN reply.response
    /\ \A i \in DimIndex :
          /\ IsString(reply.response, Dimensions[i])
          /\ reply.response[Dimensions[i]].str = "D"
    /\ result.Error = NilError
    /\ result.Score = Rat(3, 4)

\* the scorers of package llmjudge
JudgeScorer == scorer \in {"Factuality", "Tonality", "Moderation"}

\* the Score call is over
Ended == pc \notin {"idle", "awaiting", "awaitingExpected"}

\* the outcome of a returned Score
outcome ==
    IF result.Error = NilError THEN "Success"
    ELSE IF result.Error = ErrNoExpectedValue THEN "InputError"
    ELSE "DependencyError"

\* C28 (as claimed): every Score call of a judge scorer that is over has
\* returned a Score, which is a Success, an InputError or a DependencyError;
\* an InputError comes only from a scorer that requires Expected and got none,
\* and Tonality and Moderation, given no Expected and a valid answer of the
\* collaborator, return a Success
C28_ThreeOutcomes ==
    JudgeScorer =>
        /\ Ended => Returned
        /\ (Returned /\ outcome = "InputError") =>
              (ExpectedRequiring /\ in.Expected = EmptyString)
        /\ (scorer = "Tonality" /\ GradesExtracted /\ in.Expected = EmptyString) =>
              outcome = "Success"
        /\ (scorer = "Moderation" /\ pc # "idle" /\ pc # "awaiting"
                /\ llm # "nil" /\ reply.err = NilError /\ in.Expected = EmptyString) =>
              (Returned /\ outcome = "Success")

\* a Moderation result with a nil Error
ModerationSucceeded ==
    /\ scorer = "Moderation"
    /\ Returned
    /\ result.Error = NilError

\* the evaluated categories whose confidence is over the effective threshold
overThresholdCategories ==
    {category \in evaluatedCategories : RGt(category.Confidence, claimedThreshold)}

WhitespaceOnly(str) ==
    /\ str # EmptyString
    /\ \A i \in 1..Len(str) : IsSpace(str[i])

\* C30: ExactMatch reports ErrNoExpectedValue exactly when the raw Expected is
\* empty; with TrimWhitespace set, a white-space-only Expected is compared as
\* the empty string: the Error is nil and the Score is 1 exactly when the
\* Output is empty or white space only
C30_ExpectedCheckedBeforeTrimming ==
    (scorer = "ExactMatch" /\ Returned) =>
        /\ (result.Error = ErrNoExpectedValue) = (in.Expected = EmptyString)
        /\ (opts.TrimWhitespace /\ WhitespaceOnly(in.Expected)) =>
              /\ result.Error = NilError
              /\ (result.Score = One) =
                    (in.Output = EmptyString \/ WhitespaceOnly(in.Output))

\* C30 witness: Expected " " scores 1 against Output "  " when trimming
C30_Witness ==
    /\ scorer = "ExactMatch"
    /\ Returned
    /\ opts.TrimWhitespace
    /\ in.Expected = <<" ">>
    /\ in.Output = <<" ", " ">>
    /\ result.Error = NilError
    /\ result.Score = One

====
